---- MODULE Spec2Model ----
(***************************************************************************)
(* Model of the MP3 player with A/B loop (src/main.py): the MainWindow     *)
(* controller, the LyricsDisplay timeline, the settings dictionary and the *)
(* QMediaPlayer engine it drives.                                          *)
(*                                                                         *)
(* Every handler of the program is a function from the program state (a    *)
(* record with one field per attribute) to the program state; an action    *)
(* applies one handler, nested calls included, to the current state.       *)
(*                                                                         *)
(* The engine (QMediaPlayer) is not code of the repository.  It is         *)
(* modelled by what the handlers observe of it: state(), mediaStatus(),    *)
(* position(), duration() and the two signals connected at lines 177-178.  *)
(* Engine assumptions: setMedia() returns at once with the media status    *)
(* LoadingMedia and LoadedMedia is signalled later; play() changes the     *)
(* state only when there is media to play; stop() rewinds to 0;            *)
(* setPosition() keeps the position inside [0, duration()].                *)
(***************************************************************************)
EXTENDS Integers, Sequences, FiniteSets, TLC

(***************************************************************************)
(* Bounds of the model.                                                    *)
(***************************************************************************)
\* a track lasts DurSteps grid steps; the playhead is sampled on the grid
DurSteps == 2
\* learning-time ticks delivered in one session
MaxTicks == 1
\* grid steps the markers may be shifted below 0 by adjust_ab_loop
MaxBelow == 1

(***************************************************************************)
(* Program constants.                                                      *)
(***************************************************************************)
max_recent_files == 10
AdjustDown == -100
AdjustUp == 500
NavShort == 5000
LearningStep == 1000
\* path_media = '' : no current track (also the cancelled open dialog)
NoPath == 0
\* Python's None, and a set optional value
None == <<>>
Some(v) == <<v>>
Val(o) == o[1]
\* Python truthiness of an optional int: None and 0 are both false
Truthy(o) == o # None /\ Val(o) # 0

NavLong == 1000 * 38
\* the playhead is sampled every |AdjustDown| ms
Grid == -AdjustDown

Min(a, b) == IF a < b THEN a ELSE b
Max(a, b) == IF a > b THEN a ELSE b

(***************************************************************************)
(* The file system seen through osp.isfile, AudioSegment.from_file and     *)
(* webvtt.read.  Files 1..NumFiles exist; the last one cannot be decoded.  *)
(* File 1 has a sidecar .vtt file with cues from 0 on; three more files    *)
(* have a sidecar: one without captions, one webvtt.read rejects, one      *)
(* whose first cue starts after 0.  The other files have none.             *)
(***************************************************************************)
NumFiles == max_recent_files + 2
Files == 1..NumFiles
CorruptFile == NumFiles
IsFile(path) == path \in Files
Decodable(path) == path \in Files \ {CorruptFile}
DurationOf(path) == IF Decodable(path) THEN Grid * DurSteps ELSE 0
Positions == {Grid * k : k \in 0..DurSteps}

\* the files whose sidecar is not that of file 1
HeaderOnlyVtt == 3
MalformedVtt == 4
LateCuesVtt == 5

\* a caption start "HH:MM:SS.mmm" is kept as its three fields
VttKind(path) ==
    IF path \in {1, HeaderOnlyVtt, LateCuesVtt} THEN "cues"
    ELSE IF path = MalformedVtt THEN "malformed"
    ELSE "missing"
VttOf(path) ==
    IF path = 1
    THEN << [start |-> [hh |-> 0, mm |-> 0, ms |-> 0],       text |-> "la"],
            [start |-> [hh |-> 0, mm |-> 0, ms |-> 0],       text |-> "la."],
            [start |-> [hh |-> 0, mm |-> 0, ms |-> Grid],    text |-> "li"],
            [start |-> [hh |-> 0, mm |-> 0, ms |-> Grid],    text |-> "li."] >>
    ELSE IF path = LateCuesVtt
    THEN << [start |-> [hh |-> 0, mm |-> 0, ms |-> Grid],     text |-> "do"],
            [start |-> [hh |-> 0, mm |-> 0, ms |-> Grid],     text |-> "do."],
            [start |-> [hh |-> 0, mm |-> 0, ms |-> 2 * Grid], text |-> "re"],
            [start |-> [hh |-> 0, mm |-> 0, ms |-> 2 * Grid], text |-> "re."] >>
    ELSE << >>

VARIABLES
    pos_loop_a, pos_loop_b,       \* A/B loop markers (None or ms)
    path_media,                   \* current track path ('' = NoPath)
    mp3_data,                     \* decoded AudioSegment (path it came from)
    duration_ms,                  \* controller's copy of the duration
    start_time_lyrics, lyrics,    \* LyricsDisplay cue lists
    plain_text,                   \* LyricsDisplay shown text
    buf_open, buf_data,           \* player_buf (QBuffer)
    p_state, p_status,            \* engine state() and mediaStatus()
    p_position, p_duration,       \* engine position() and duration()
    setting_pos,                  \* setting[path] resume positions
    setting_last,                 \* setting['LastPlayedPath']
    recent_files,                 \* setting['recent_files']
    setting_total,                \* setting['learning_time_ms_total']
    learning_time_ms, learning_time_ms_total,
    timer_active,                 \* timer_learning_time is running
    seeks,                        \* setPosition arguments of the last step
    closed,                       \* closeEvent has run
    setting_file,                 \* content of setting.json
    history,                      \* rows this session put in history.db
    progressbar                   \* MusicProgressBar's pos_loop_a, pos_loop_b

vars == << pos_loop_a, pos_loop_b, path_media, mp3_data, duration_ms,
           start_time_lyrics, lyrics, plain_text, buf_open, buf_data,
           p_state, p_status, p_position, p_duration, setting_pos,
           setting_last, recent_files, setting_total, learning_time_ms,
           learning_time_ms_total, timer_active, seeks, closed,
           setting_file, history, progressbar >>

\* the program state as one record
Cur ==
    [ pos_loop_a |-> pos_loop_a, pos_loop_b |-> pos_loop_b,
      path_media |-> path_media, mp3_data |-> mp3_data,
      duration_ms |-> duration_ms,
      start_time_lyrics |-> start_time_lyrics, lyrics |-> lyrics,
      plain_text |-> plain_text, buf_open |-> buf_open, buf_data |-> buf_data,
      p_state |-> p_state, p_status |-> p_status,
      p_position |-> p_position, p_duration |-> p_duration,
      setting_pos |-> setting_pos, setting_last |-> setting_last,
      recent_files |-> recent_files, setting_total |-> setting_total,
      learning_time_ms |-> learning_time_ms,
      learning_time_ms_total |-> learning_time_ms_total,
      timer_active |-> timer_active, seeks |-> seeks, closed |-> closed,
      setting_file |-> setting_file, history |-> history,
      progressbar |-> progressbar ]

\* the state a handler starts from: no seek issued yet in this step
Start == [Cur EXCEPT !.seeks = << >>]

\* the next state is the handler's result (bound once, then read by field)
Assign(result) ==
    \E s \in {result} :
        /\ pos_loop_a' = s.pos_loop_a
        /\ pos_loop_b' = s.pos_loop_b
        /\ path_media' = s.path_media
        /\ mp3_data' = s.mp3_data
        /\ duration_ms' = s.duration_ms
        /\ start_time_lyrics' = s.start_time_lyrics
        /\ lyrics' = s.lyrics
        /\ plain_text' = s.plain_text
        /\ buf_open' = s.buf_open
        /\ buf_data' = s.buf_data
        /\ p_state' = s.p_state
        /\ p_status' = s.p_status
        /\ p_position' = s.p_position
        /\ p_duration' = s.p_duration
        /\ setting_pos' = s.setting_pos
        /\ setting_last' = s.setting_last
        /\ recent_files' = s.recent_files
        /\ setting_total' = s.setting_total
        /\ learning_time_ms' = s.learning_time_ms
        /\ learning_time_ms_total' = s.learning_time_ms_total
        /\ timer_active' = s.timer_active
        /\ seeks' = s.seeks
        /\ closed' = s.closed
        /\ setting_file' = s.setting_file
        /\ history' = s.history
        /\ progressbar' = s.progressbar

(***************************************************************************)
(* The engine, as the handlers call it.                                    *)
(***************************************************************************)
HasMedia(s) == s.p_status \in {"LoadedMedia", "EndOfMedia"} /\ s.buf_open

\* seeks records the request; the engine moves only inside loaded media
PlayerSetPosition(s, x) ==
    [s EXCEPT !.seeks = Append(@, x),
              !.p_position = IF HasMedia(s)
                             THEN Max(0, Min(x, s.p_duration))
                             ELSE @]

PlayerPlay(s) ==
    IF ~HasMedia(s) THEN s
    ELSE IF s.p_status = "EndOfMedia"
         THEN [s EXCEPT !.p_state = "Playing", !.p_status = "LoadedMedia",
                        !.p_position = 0]
         ELSE [s EXCEPT !.p_state = "Playing"]

PlayerPause(s) ==
    IF s.p_state = "Playing" THEN [s EXCEPT !.p_state = "Paused"] ELSE s

PlayerStop(s) == [s EXCEPT !.p_state = "Stopped", !.p_position = 0]

PlayerSetMedia(s) ==
    [s EXCEPT !.p_state = "Stopped", !.p_status = "LoadingMedia",
              !.p_position = 0, !.p_duration = 0]

(***************************************************************************)
(* LyricsDisplay.                                                          *)
(***************************************************************************)
\* seq[::2]
EveryOther(seq) == [i \in 1..((Len(seq) + 1) \div 2) |-> seq[2 * i - 1]]

\* hour, min_ and millisec of read_vtt put together
TimeMs(start) == 1000 * (start.hh * 60 * 60 + start.mm * 60) + start.ms

\* bisect.bisect_right(a, x, lo, hi) on 0-based positions lo..hi
RECURSIVE bisect_right(_, _, _, _)
bisect_right(a, x, lo, hi) ==
    IF lo < hi
    THEN LET mid == (lo + hi) \div 2
         IN IF x < a[mid + 1]
            THEN bisect_right(a, x, lo, mid)
            ELSE bisect_right(a, x, mid + 1, hi)
    ELSE lo

\* the result is [s |-> state reached, ok |-> FALSE when an exception
\* leaves the method]
read_vtt(s, path) ==
    LET s1 == [s EXCEPT !.start_time_lyrics = << >>, !.lyrics = << >>]
    IN IF VttKind(path) = "missing" THEN [s |-> s1, ok |-> TRUE]
       ELSE IF VttKind(path) = "malformed" THEN [s |-> s1, ok |-> FALSE]
       ELSE LET caps == VttOf(path)
                times == [i \in 1..Len(caps) |-> TimeMs(caps[i].start)]
                texts == [i \in 1..Len(caps) |-> caps[i].text]
                s2 == [s1 EXCEPT !.start_time_lyrics = EveryOther(times),
                                 !.lyrics = EveryOther(texts)]
            IN IF s2.lyrics = << >>
               THEN [s |-> s2, ok |-> FALSE]
               ELSE [s |-> [s2 EXCEPT !.plain_text = s2.lyrics[1]],
                     ok |-> TRUE]

update_media_pos(s, pos_ms) ==
    IF s.lyrics = << >> THEN s
    ELSE LET idx == Max(bisect_right(s.start_time_lyrics, pos_ms, 0,
                                     Len(s.start_time_lyrics)) - 1, 0)
         IN [s EXCEPT !.plain_text = s.lyrics[idx + 1]]

(***************************************************************************)
(* MainWindow handlers.                                                    *)
(***************************************************************************)
load_mp3(s, path) ==
    IF ~IsFile(path) THEN s
    ELSE LET s1 == [s EXCEPT !.path_media = path]
             r == read_vtt(s1, path)
         IN IF ~r.ok THEN r.s
            ELSE IF ~Decodable(path) THEN r.s
            ELSE LET s2 == [r.s EXCEPT !.mp3_data = path]
                     s3 == IF s2.buf_open THEN s2
                           ELSE [s2 EXCEPT !.buf_data = path]
                     s4 == [s3 EXCEPT !.buf_open = TRUE]
                 IN PlayerSetMedia(s4)

\* lines 403-405: the progress bar is given the markers to draw
MirrorMarkers(s) ==
    [s EXCEPT !.progressbar = [pos_loop_a |-> s.pos_loop_a,
                               pos_loop_b |-> s.pos_loop_b]]

\* set_ab_loop with line 395 left out: the clear forgets pos_loop_b
set_ab_loop_clears_a_only(s) ==
    MirrorMarkers(
        IF Truthy(s.pos_loop_b)
        THEN [s EXCEPT !.pos_loop_a = None]
        ELSE IF Truthy(s.pos_loop_a)
             THEN PlayerSetPosition(
                      [s EXCEPT !.pos_loop_b = Some(s.p_position)],
                      Val(s.pos_loop_a))
             ELSE [s EXCEPT !.pos_loop_a = Some(s.p_position)])

set_ab_loop(s) ==
    MirrorMarkers(
        IF Truthy(s.pos_loop_b)
        THEN [s EXCEPT !.pos_loop_b = None, !.pos_loop_a = None]
        ELSE IF Truthy(s.pos_loop_a)
             THEN PlayerSetPosition(
                      [s EXCEPT !.pos_loop_b = Some(s.p_position)],
                      Val(s.pos_loop_a))
             ELSE [s EXCEPT !.pos_loop_a = Some(s.p_position)])

adjust_ab_loop(s, offset_ms) ==
    IF Truthy(s.pos_loop_b)
    THEN [s EXCEPT !.pos_loop_b = Some(Val(@) + offset_ms),
                   !.pos_loop_a = Some(Val(@) + offset_ms)]
    ELSE s

\* write_ok: seg.export completes (FALSE: it raises and the handler ends)
save_ab_loop(s, write_ok) ==
    IF s.pos_loop_b = None THEN s
    ELSE LET is_playing == s.p_state = "Playing"
             s1 == IF is_playing THEN PlayerPause(s) ELSE s
         IN IF ~write_ok \/ s.mp3_data = NoPath THEN s1
            ELSE IF is_playing THEN PlayerPlay(s1) ELSE s1

play(s) ==
    IF s.p_state = "Playing"
    THEN [PlayerPause(s) EXCEPT !.timer_active = FALSE]
    ELSE [PlayerPlay(s) EXCEPT !.timer_active = TRUE]

save_current_media_info(s) ==
    IF ~IsFile(s.path_media) THEN s
    ELSE IF s.path_media # NoPath
         THEN [s EXCEPT !.setting_pos[s.path_media] = Some(s.p_position),
                        !.setting_last = s.path_media]
         ELSE s

\* stop with line 446 left out: the position is not stored
stop_forgets_position(s) ==
    LET s1 == PlayerStop(s)
    IN [s1 EXCEPT !.buf_open = FALSE, !.path_media = NoPath,
                  !.pos_loop_b = None, !.pos_loop_a = None,
                  !.timer_active = FALSE]

stop(s) ==
    LET s1 == PlayerStop(save_current_media_info(s))
    IN [s1 EXCEPT !.buf_open = FALSE, !.path_media = NoPath,
                  !.pos_loop_b = None, !.pos_loop_a = None,
                  !.timer_active = FALSE]

navigate_media(s, ms) ==
    LET position_ms == s.p_position
        new_position_ms == IF ms < 0 THEN Max(0, position_ms + ms)
                           ELSE Min(s.duration_ms, position_ms + ms)
    IN PlayerSetPosition(s, new_position_ms)

set_media_position(s, position_ms) == PlayerSetPosition(s, position_ms)

\* files.remove(path): the first occurrence only
RECURSIVE RemoveFirst(_, _)
RemoveFirst(files, path) ==
    IF files = << >> THEN << >>
    ELSE IF Head(files) = path THEN Tail(files)
    ELSE << Head(files) >> \o RemoveFirst(Tail(files), path)

\* lines 501-507 with files.remove(path) left out
TouchRecent_no_remove(files, path) ==
    LET ins == << path >> \o files
    IN SubSeq(ins, 1, Min(Len(ins), max_recent_files))

\* lines 501-507: remove, insert(0, path), del files[max_recent_files:]
TouchRecent(files, path) ==
    LET ins == << path >> \o RemoveFirst(files, path)
    IN SubSeq(ins, 1, Min(Len(ins), max_recent_files))

SettingGet(s, path) ==
    IF s.setting_pos[path] = None THEN 0 ELSE Val(s.setting_pos[path])

\* qmp_status_changed with lines 496-498 left out: no resume position
qmp_status_changed_no_resume(s) ==
    LET s1 == IF s.p_status = "LoadedMedia" /\ s.path_media # NoPath
              THEN LET a == [s EXCEPT !.duration_ms = s.p_duration]
                       b == PlayerPlay(a)
                   IN [b EXCEPT !.recent_files =
                                    TouchRecent(@, b.path_media)]
              ELSE s
    IN IF s1.p_state \in {"Paused", "Stopped"}
       THEN [s1 EXCEPT !.timer_active = FALSE]
       ELSE [s1 EXCEPT !.timer_active = TRUE]

qmp_status_changed(s) ==
    LET s1 == IF s.p_status = "LoadedMedia" /\ s.path_media # NoPath
              THEN LET a == [s EXCEPT !.duration_ms = s.p_duration]
                       b == PlayerPlay(a)
                       c == PlayerSetPosition(b, SettingGet(b, b.path_media))
                   IN [c EXCEPT !.recent_files =
                                    TouchRecent(@, c.path_media)]
              ELSE s
    IN IF s1.p_state \in {"Paused", "Stopped"}
       THEN [s1 EXCEPT !.timer_active = FALSE]
       ELSE [s1 EXCEPT !.timer_active = TRUE]

\* qmp_position_changed with lines 522-525 left out: no loop enforcement
qmp_position_changed_no_seek(s, position_ms) ==
    update_media_pos(s, position_ms)

qmp_position_changed(s, position_ms) ==
    LET s1 == IF Truthy(s.pos_loop_b)
                 /\ (position_ms = s.duration_ms
                     \/ Val(s.pos_loop_b) < position_ms)
              THEN PlayerSetPosition(s, Val(s.pos_loop_a))
              ELSE s
    IN update_media_pos(s1, position_ms)

update_learning_time(s) ==
    [s EXCEPT !.learning_time_ms = @ + LearningStep,
              !.learning_time_ms_total = @ + LearningStep]

\* json.dump(self.setting, fp): the file holds the whole dictionary
Dumped(s) ==
    [valid |-> TRUE, pos |-> s.setting_pos, last |-> s.setting_last,
     recent |-> s.recent_files, total |-> s.setting_total]

\* open(..., 'w') emptied the file and json.dump did not complete
Truncated ==
    [valid |-> FALSE, pos |-> [f \in Files |-> None], last |-> NoPath,
     recent |-> << >>, total |-> 0]

\* the row of lines 574-577; the date fields come from self.now
SessionRow(s) == [LearningTime_ms |-> s.learning_time_ms]

\* how lines 562-563 end: done, open() raises, json.dump raises
FlushOutcomes == {"ok", "open_fails", "dump_fails"}

\* closeEvent with the insert into history.db moved before the flush
closeEvent_append_first(s, flush, append_ok) ==
    LET s1 == stop(s)
        s2 == [s1 EXCEPT !.setting_total = s1.learning_time_ms_total,
                         !.closed = TRUE]
    IN IF ~append_ok THEN s2
       ELSE LET s3 == [s2 EXCEPT !.history = Append(@, SessionRow(s2))]
            IN IF flush = "open_fails" THEN s3
               ELSE IF flush = "dump_fails"
                    THEN [s3 EXCEPT !.setting_file = Truncated]
               ELSE [s3 EXCEPT !.setting_file = Dumped(s3)]

\* flush: how writing setting.json ends; append_ok: the sqlite3 calls of
\* lines 566-579 complete (FALSE: one raises and the handler ends)
closeEvent(s, flush, append_ok) ==
    LET s1 == stop(s)
        s2 == [s1 EXCEPT !.setting_total = s1.learning_time_ms_total,
                         !.closed = TRUE]
    IN IF flush = "open_fails" THEN s2
       ELSE IF flush = "dump_fails"
            THEN [s2 EXCEPT !.setting_file = Truncated]
       ELSE LET s3 == [s2 EXCEPT !.setting_file = Dumped(s2)]
            IN IF ~append_ok THEN s3
               ELSE [s3 EXCEPT !.history = Append(@, SessionRow(s3))]

open_mp3(s, fname) == load_mp3(stop(s), fname)

load_recent_mp3(s, data) == load_mp3(stop(s), data)

(***************************************************************************)
(* Construction: MainWindow.__init__ on the settings read by load_setting. *)
(***************************************************************************)
NoSetting ==
    [pos |-> [f \in Files |-> None], last |-> NoPath, recent |-> << >>,
     total |-> 0]

\* setting.json written by an earlier session that played file 1
OldSetting(total) ==
    [pos |-> [f \in Files |-> IF f = 1 THEN Some(Grid) ELSE None],
     last |-> 1, recent |-> << 1 >>, total |-> total]

Constructed(setting) ==
    LET s0 == [ pos_loop_a |-> None, pos_loop_b |-> None,
                path_media |-> NoPath, mp3_data |-> NoPath,
                duration_ms |-> 0,
                start_time_lyrics |-> << >>, lyrics |-> << >>,
                plain_text |-> "", buf_open |-> FALSE, buf_data |-> NoPath,
                p_state |-> "Stopped", p_status |-> "NoMedia",
                p_position |-> 0, p_duration |-> 0,
                setting_pos |-> setting.pos, setting_last |-> setting.last,
                recent_files |-> setting.recent,
                setting_total |-> setting.total,
                learning_time_ms |-> 0,
                learning_time_ms_total |-> setting.total,
                timer_active |-> FALSE, seeks |-> << >>, closed |-> FALSE,
                setting_file |-> [valid |-> TRUE, pos |-> setting.pos,
                                  last |-> setting.last,
                                  recent |-> setting.recent,
                                  total |-> setting.total],
                history |-> << >>,
                progressbar |-> [pos_loop_a |-> None, pos_loop_b |-> None] ]
    IN load_mp3(s0, setting.last)

InitIs(s) ==
    /\ pos_loop_a = s.pos_loop_a
    /\ pos_loop_b = s.pos_loop_b
    /\ path_media = s.path_media
    /\ mp3_data = s.mp3_data
    /\ duration_ms = s.duration_ms
    /\ start_time_lyrics = s.start_time_lyrics
    /\ lyrics = s.lyrics
    /\ plain_text = s.plain_text
    /\ buf_open = s.buf_open
    /\ buf_data = s.buf_data
    /\ p_state = s.p_state
    /\ p_status = s.p_status
    /\ p_position = s.p_position
    /\ p_duration = s.p_duration
    /\ setting_pos = s.setting_pos
    /\ setting_last = s.setting_last
    /\ recent_files = s.recent_files
    /\ setting_total = s.setting_total
    /\ learning_time_ms = s.learning_time_ms
    /\ learning_time_ms_total = s.learning_time_ms_total
    /\ timer_active = s.timer_active
    /\ seeks = s.seeks
    /\ closed = s.closed
    /\ setting_file = s.setting_file
    /\ history = s.history
    /\ progressbar = s.progressbar

Init ==
    \E setting \in {NoSetting, OldSetting(LearningStep)} : InitIs(Constructed(setting))

(***************************************************************************)
(* Actions: user events and engine signals.                                *)
(***************************************************************************)
\* what the open dialog returns: '' (cancelled), file 1, the corrupt file
DialogChoices == {NoPath, 1, CorruptFile}

\* the range the model lets adjust_ab_loop move the markers in
MarkerLo == -(Grid * MaxBelow)
MarkerHi == Grid * DurSteps + AdjustUp
InRange(o) ==
    IF o = None THEN TRUE ELSE MarkerLo <= Val(o) /\ Val(o) <= MarkerHi

OpenMp3At(fname) == ~closed /\ Assign(open_mp3(Start, fname))

DoOpenMp3 == \E fname \in DialogChoices : OpenMp3At(fname)

\* the i-th visible entry of the recent-files menu (lines 314-318)
LoadRecentMp3At(i) ==
    /\ ~closed
    /\ i \in 1..Min(Len(recent_files), max_recent_files)
    /\ Assign(load_recent_mp3(Start, recent_files[i]))

DoLoadRecentMp3 == \E i \in 1..max_recent_files : LoadRecentMp3At(i)

DoSetAbLoop == ~closed /\ Assign(set_ab_loop(Start))

\* keyPressEvent: Shift+O and O
AdjustOffsets == {AdjustDown, AdjustUp}

AdjustAbLoopAt(offset_ms) ==
    LET s == adjust_ab_loop(Start, offset_ms)
    IN ~closed /\ InRange(s.pos_loop_a) /\ InRange(s.pos_loop_b)
       /\ Assign(s)

DoAdjustAbLoop == \E offset_ms \in AdjustOffsets : AdjustAbLoopAt(offset_ms)

DoSaveAbLoop ==
    \E write_ok \in BOOLEAN : ~closed /\ Assign(save_ab_loop(Start, write_ok))

DoPlay == ~closed /\ Assign(play(Start))

DoNavigate ==
    \E ms \in {-NavShort, NavShort, -NavLong, NavLong} :
        ~closed /\ Assign(navigate_media(Start, ms))

\* a click on the progress bar: a position up to its maximum, which is
\* QProgressBar's default 100 until line 490 sets it
DoSetMediaPosition ==
    \E position_ms \in Positions :
        /\ ~closed
        /\ position_ms <= (IF duration_ms = 0 THEN 100 ELSE duration_ms)
        /\ Assign(set_media_position(Start, position_ms))

\* mediaStatusChanged: the engine finished loading the buffer
MediaLoaded ==
    /\ ~closed
    /\ p_status = "LoadingMedia" /\ buf_open
    /\ Assign(qmp_status_changed(
           [Start EXCEPT !.p_status = "LoadedMedia",
                         !.p_duration = DurationOf(buf_data)]))

\* mediaStatusChanged: playback ran to the end of the media
EndOfMedia ==
    /\ ~closed
    /\ p_state = "Playing" /\ p_position = p_duration
    /\ Assign(qmp_status_changed(
           [Start EXCEPT !.p_status = "EndOfMedia", !.p_state = "Stopped"]))

\* positionChanged: the engine reports its position, after playback moved
\* it on or after a seek
PositionChangedAt(position_ms) ==
    /\ ~closed
    /\ HasMedia(Cur)
    /\ IF position_ms = p_position THEN TRUE
       ELSE p_state = "Playing" /\ p_position < position_ms
            /\ position_ms <= p_duration
    /\ Assign(qmp_position_changed(
           [Start EXCEPT !.p_position = position_ms], position_ms))

PositionChanged == \E position_ms \in Positions : PositionChangedAt(position_ms)

\* timer_learning_time.timeout
LearningTimeout ==
    /\ ~closed
    /\ timer_active
    /\ learning_time_ms < MaxTicks * LearningStep
    /\ Assign(update_learning_time(Start))

CloseAt(flush, append_ok) ==
    ~closed /\ Assign(closeEvent(Start, flush, append_ok))

\* the insert is reached only after a completed flush
DoClose ==
    \E flush \in FlushOutcomes, append_ok \in BOOLEAN :
        (flush # "ok" => append_ok) /\ CloseAt(flush, append_ok)

Next ==
    \/ DoOpenMp3
    \/ DoLoadRecentMp3
    \/ DoSetAbLoop
    \/ DoAdjustAbLoop
    \/ DoSaveAbLoop
    \/ DoPlay
    \/ DoNavigate
    \/ DoSetMediaPosition
    \/ MediaLoaded
    \/ EndOfMedia
    \/ PositionChanged
    \/ LearningTimeout
    \/ DoClose

Spec == Init /\ [][Next]_vars

(***************************************************************************)
(* The recent-files list at capacity: the settings of an earlier session   *)
(* that loaded files max_recent_files .. 1, and loads of the first, the    *)
(* last and a new file.                                                    *)
(***************************************************************************)
FullSetting ==
    [pos |-> [f \in Files |-> IF f = 1 THEN Some(Grid) ELSE None],
     last |-> 1, recent |-> [i \in 1..max_recent_files |-> i],
     total |-> LearningStep]

InitRecent == InitIs(Constructed(FullSetting))

RecentDialogChoices == {NoPath, 1, max_recent_files, max_recent_files + 1}

OpenRecentDialog == \E fname \in RecentDialogChoices : OpenMp3At(fname)

LoadSecondRecent == LoadRecentMp3At(2)

NextRecent ==
    \/ OpenRecentDialog
    \/ LoadSecondRecent
    \/ MediaLoaded
    \/ DoPlay
    \/ DoClose

SpecRecent == InitRecent /\ [][NextRecent]_vars

(***************************************************************************)
(* The life of a session: tracks opened, played, stopped by the next open  *)
(* or by the close of the window, with the learning-time timer running.    *)
(***************************************************************************)
NextSession ==
    \/ DoOpenMp3
    \/ DoSetAbLoop
    \/ DoPlay
    \/ MediaLoaded
    \/ EndOfMedia
    \/ PositionChanged
    \/ LearningTimeout
    \/ DoClose

SpecSession == Init /\ [][NextSession]_vars

(***************************************************************************)
(* The loop at work: the markers are set and shifted, the playhead is      *)
(* moved by playback and by clicks.  The engine reports the position every *)
(* notify interval (line 179) for as long as it has one to report, so the  *)
(* position ticks are weakly fair.                                         *)
(***************************************************************************)
NextLoop ==
    \/ DoSetAbLoop
    \/ DoAdjustAbLoop
    \/ DoSetMediaPosition
    \/ DoPlay
    \/ MediaLoaded
    \/ EndOfMedia
    \/ PositionChanged

SpecLoop == Init /\ [][NextLoop]_vars /\ WF_vars(PositionChanged)

(***************************************************************************)
(* Every handler that writes a loop marker (set_ab_loop, adjust_ab_loop,   *)
(* stop through open and close), with the playback that gives the markers  *)
(* their values.                                                           *)
(***************************************************************************)
NextMarkers ==
    \/ DoOpenMp3
    \/ DoSetAbLoop
    \/ DoAdjustAbLoop
    \/ DoSetMediaPosition
    \/ DoPlay
    \/ MediaLoaded
    \/ EndOfMedia
    \/ PositionChanged
    \/ DoClose

SpecMarkers == Init /\ [][NextMarkers]_vars

(***************************************************************************)
(* Tracks that differ in their sidecar file: loads of file 1, of a track   *)
(* without sidecar and of the three tracks with the other sidecars.        *)
(***************************************************************************)
LyricsDialogChoices == {1, 2, HeaderOnlyVtt, MalformedVtt, LateCuesVtt}

OpenLyricsDialog == \E fname \in LyricsDialogChoices : OpenMp3At(fname)

NextLyrics ==
    \/ OpenLyricsDialog
    \/ MediaLoaded
    \/ PositionChanged

SpecLyrics == Init /\ [][NextLyrics]_vars

(***************************************************************************)
(* The logical states of the loop marker: a marker is set when it is not   *)
(* None.                                                                   *)
(***************************************************************************)
IsEmpty == pos_loop_a = None /\ pos_loop_b = None
IsPartial == pos_loop_a # None /\ pos_loop_b = None
IsFull == pos_loop_a # None /\ pos_loop_b # None

(***************************************************************************)
(* C1.  With the loop marker Full, every position tick whose position_ms   *)
(* is at or beyond posB, or equal to the duration, issues seek(posA) in    *)
(* that tick.                                                              *)
(***************************************************************************)
C1_TickAtOrPastBSeeksA ==
    [][\A position_ms \in Positions :
          (/\ PositionChangedAt(position_ms)
           /\ IsFull
           /\ (position_ms >= Val(pos_loop_b) \/ position_ms = duration_ms))
          => seeks' = << Val(pos_loop_a) >>]_vars

(***************************************************************************)
(* C2.  Every toggle moves the loop marker one step round the cycle        *)
(* Empty -> Partial -> Full -> Empty, whatever the playhead position, so   *)
(* three toggles return it to Empty.                                       *)
(***************************************************************************)
C2_ToggleCycles ==
    [][DoSetAbLoop =>
          /\ IsEmpty => IsPartial'
          /\ IsPartial => IsFull'
          /\ IsFull => IsEmpty']_vars

(***************************************************************************)
(* C3.  A toggle in Partial(a) at playhead p gives Full(a, p), leaves posA *)
(* as it was and issues seek(a) in the same step.                          *)
(***************************************************************************)
C3_SecondToggleArmsAndSeeks ==
    [][(DoSetAbLoop /\ IsPartial) =>
          /\ pos_loop_a' = pos_loop_a
          /\ pos_loop_b' = Some(p_position)
          /\ seeks' = << Val(pos_loop_a) >>]_vars

(***************************************************************************)
(* C4.  adjust(offset_ms) in a Full state adds offset_ms to posA and to    *)
(* posB, so posB - posA is kept; in Empty and Partial it changes neither.  *)
(***************************************************************************)
C4_AdjustShiftsBoth ==
    [][\A offset_ms \in AdjustOffsets :
          AdjustAbLoopAt(offset_ms) =>
             IF IsFull
             THEN /\ pos_loop_a' = Some(Val(pos_loop_a) + offset_ms)
                  /\ pos_loop_b' = Some(Val(pos_loop_b) + offset_ms)
             ELSE UNCHANGED << pos_loop_a, pos_loop_b >>]_vars

(***************************************************************************)
(* C5.  Every set marker lies within the track: 0 <= posA <= duration and  *)
(* 0 <= posB <= duration.                                                  *)
(***************************************************************************)
C5_MarkersWithinTrack ==
    /\ pos_loop_a # None =>
          (0 <= Val(pos_loop_a) /\ Val(pos_loop_a) <= duration_ms)
    /\ pos_loop_b # None =>
          (0 <= Val(pos_loop_b) /\ Val(pos_loop_b) <= duration_ms)

(***************************************************************************)
(* C6.  In every reachable state posB is set only if posA is set.          *)
(***************************************************************************)
C6_BOnlyWithA == pos_loop_b # None => pos_loop_a # None

\* both markers set and shifted below the start of the track: toggles and
\* an adjustment have acted
C6_Witness == IsFull /\ Val(pos_loop_a) < 0 /\ p_state = "Playing"

(***************************************************************************)
(* C7.  The loop marker is Empty right after every load, after every       *)
(* stop() and after a toggle from Full.                                    *)
(***************************************************************************)
C7_EmptyAfterLoadStopClear ==
    [][(\/ DoOpenMp3
        \/ DoLoadRecentMp3
        \/ DoClose
        \/ (DoSetAbLoop /\ IsFull)) => IsEmpty']_vars

(***************************************************************************)
(* C8.  A learning-time tick is delivered only while the engine is in the  *)
(* Playing state, and each tick adds 1000 ms to the total, which starts    *)
(* from the total of the settings.                                         *)
(***************************************************************************)
C8_TicksOnlyWhilePlaying ==
    [][LearningTimeout =>
          /\ p_state = "Playing"
          /\ learning_time_ms_total = setting_total + learning_time_ms
          /\ learning_time_ms_total' = learning_time_ms_total + 1000]_vars

(***************************************************************************)
(* C9.  recent_files has no duplicate and at most 10 entries; a completed  *)
(* load puts the loaded path at the front, and when the path was already   *)
(* listed the length and the order of the other entries are kept.          *)
(***************************************************************************)
NoDuplicates(files) ==
    \A i, j \in 1..Len(files) : files[i] = files[j] => i = j

Without(files, path) == SelectSeq(files, LAMBDA f : f # path)

ListedIn(files, path) == \E i \in 1..Len(files) : files[i] = path

C9_RecentFilesMru ==
    /\ [](NoDuplicates(recent_files) /\ Len(recent_files) <= 10)
    /\ [][(MediaLoaded /\ path_media # NoPath) =>
             /\ recent_files' # << >>
             /\ recent_files'[1] = path_media
             /\ ListedIn(recent_files, path_media) =>
                   /\ Len(recent_files') = Len(recent_files)
                   /\ Without(recent_files', path_media)
                        = Without(recent_files, path_media)]_vars

\* the list is full, a new file was loaded last and the former last entry,
\* re-loaded before it, is second
C9_Witness ==
    /\ Len(recent_files) = 10
    /\ recent_files[1] = 11
    /\ recent_files[2] = 10
    /\ recent_files[3] = 1

(***************************************************************************)
(* C10.  When decoding fails during a load, the current-track path, the    *)
(* lyric timeline, the loop markers and the engine media are what they     *)
(* were before the load was attempted, that is, after the stop() that      *)
(* open_mp3 runs first.                                                    *)
(***************************************************************************)
C10_DecodeFailureChangesNothing ==
    [][\A fname \in DialogChoices :
          (OpenMp3At(fname) /\ IsFile(fname) /\ ~Decodable(fname)) =>
             LET before == stop(Start)
             IN /\ path_media' = before.path_media
                /\ start_time_lyrics' = before.start_time_lyrics
                /\ lyrics' = before.lyrics
                /\ pos_loop_a' = before.pos_loop_a
                /\ pos_loop_b' = before.pos_loop_b
                /\ mp3_data' = before.mp3_data
                /\ buf_data' = before.buf_data
                /\ p_status' = before.p_status]_vars

(***************************************************************************)
(* C11.  Opening a decodable track whose sidecar lyric file is missing,    *)
(* has no captions or cannot be parsed leaves the lyric timeline empty and *)
(* still loads the track: the audio is decoded, the track is current and   *)
(* the engine is given the media to play.                                  *)
(***************************************************************************)
C11_BadSidecarStillLoads ==
    [][\A fname \in LyricsDialogChoices :
          (/\ OpenMp3At(fname)
           /\ Decodable(fname)
           /\ (VttKind(fname) # "cues" \/ VttOf(fname) = << >>))
          => /\ start_time_lyrics' = << >> /\ lyrics' = << >>
             /\ path_media' = fname
             /\ mp3_data' = fname
             /\ buf_open' /\ p_status' = "LoadingMedia"]_vars

(***************************************************************************)
(* C12.  save_ab_loop never changes pos_loop_a or pos_loop_b, changes      *)
(* nothing unless the loop marker is Full, and leaves the engine in the    *)
(* play/pause state it found, whether the clip is written or the write     *)
(* fails.                                                                  *)
(***************************************************************************)
C12_ExportKeepsMarkersAndPlayState ==
    [][DoSaveAbLoop =>
          /\ pos_loop_a' = pos_loop_a /\ pos_loop_b' = pos_loop_b
          /\ ~IsFull => UNCHANGED << path_media, mp3_data, p_state,
                                     p_position, timer_active >>
          /\ p_state' = p_state]_vars

(***************************************************************************)
(* C13.  After every position tick the caption shown is the text of the    *)
(* rightmost cue of the current track that starts at or before the tick's  *)
(* position, the first cue's text when the position precedes all cues, and *)
(* the empty string when the current track has no cues.                    *)
(***************************************************************************)
CuesAtOrBefore(position_ms) ==
    {i \in 1..Len(start_time_lyrics) : start_time_lyrics[i] <= position_ms}

C13_CaptionIsRightmostCue ==
    [][\A position_ms \in Positions :
          PositionChangedAt(position_ms)
          => plain_text' =
                 IF lyrics = << >> THEN ""
                 ELSE IF CuesAtOrBefore(position_ms) = {} THEN lyrics[1]
                 ELSE lyrics[CHOOSE i \in CuesAtOrBefore(position_ms) :
                                \A j \in CuesAtOrBefore(position_ms) : j <= i]
       ]_vars

(***************************************************************************)
(* C14.  stop, run alone by a cancelled open dialog or by the close of the *)
(* window, stores the engine's position under the current path when there  *)
(* is one and changes no settings entry when there is none; it ends with   *)
(* no current path, both markers unset, the engine stopped and the         *)
(* learning-time timer stopped.                                            *)
(***************************************************************************)
C14_StopStoresPositionThenIdle ==
    [][(OpenMp3At(NoPath) \/ DoClose) =>
          /\ path_media # NoPath =>
                 /\ setting_pos' = [setting_pos EXCEPT
                                        ![path_media] = Some(p_position)]
                 /\ setting_last' = path_media
          /\ path_media = NoPath =>
                 /\ setting_pos' = setting_pos
                 /\ setting_last' = setting_last
          /\ recent_files' = recent_files
          /\ path_media' = NoPath /\ IsEmpty'
          /\ p_state' = "Stopped" /\ ~timer_active']_vars

C14_Witness ==
    /\ ~closed /\ path_media = NoPath /\ IsEmpty
    /\ p_state = "Stopped" /\ ~timer_active
    /\ setting_last = 1 /\ setting_pos[1] = Some(Grid * DurSteps)

(***************************************************************************)
(* C15.  The media-loaded callback that completes a load leaves the engine *)
(* Playing with the playhead at the position stored in the settings for    *)
(* the loaded path (0 when none is stored) and the path still current; the *)
(* position stored is the one the last stop of that path left, so a track  *)
(* stopped at p resumes at p.                                              *)
(***************************************************************************)
C15_LoadResumesAtStoredPosition ==
    [][MediaLoaded =>
          /\ path_media' = path_media /\ path_media # NoPath
          /\ mp3_data' = path_media
          /\ p_state' = "Playing"
          /\ p_position' = SettingGet(Cur, path_media)
          /\ seeks' = << SettingGet(Cur, path_media) >>]_vars

C15_Witness ==
    /\ path_media = 1 /\ p_state = "Playing" /\ p_status = "LoadedMedia"
    /\ setting_pos[1] = Some(Grid * DurSteps)
    /\ p_position = Grid * DurSteps
    /\ seeks = << Grid * DurSteps >>

(***************************************************************************)
(* C16.  An open whose dialog is cancelled, or returns a path that is not  *)
(* a file, changes nothing: the current track, the engine's playback       *)
(* state, the loop markers, the lyric timeline and the settings are what   *)
(* they were before it.                                                    *)
(***************************************************************************)
C16_OpenOfNoFileChangesNothing ==
    [][\A fname \in DialogChoices :
          (OpenMp3At(fname) /\ ~IsFile(fname))
          => UNCHANGED << path_media, mp3_data, p_state, p_position,
                          pos_loop_a, pos_loop_b, start_time_lyrics, lyrics,
                          setting_pos, setting_last, recent_files,
                          setting_total >>]_vars

(***************************************************************************)
(* C17.  Every position a handler passes to the engine's setPosition lies  *)
(* in [0, duration_ms].                                                    *)
(***************************************************************************)
C17_SeeksWithinTrack ==
    \A i \in 1..Len(seeks) : 0 <= seeks[i] /\ seeks[i] <= duration_ms

(***************************************************************************)
(* C18.  Every close runs stop first (the engine's position is stored      *)
(* under the current path and the controller is idle) and sets the total;  *)
(* a close that can write setting.json writes the whole settings with that *)
(* position and the updated learning_time_ms_total, and then adds exactly  *)
(* one row with this session's learning_time_ms to the history; when the   *)
(* insert into the history fails the settings file is written all the      *)
(* same and no row is added.                                               *)
(***************************************************************************)
C18_CloseStopsFlushesAppends ==
    [][\A flush \in FlushOutcomes, append_ok \in BOOLEAN :
          (closed' /\ CloseAt(flush, append_ok)) =>
             /\ path_media # NoPath =>
                    setting_pos'[path_media] = Some(p_position)
             /\ path_media' = NoPath /\ p_state' = "Stopped"
             /\ setting_total' = learning_time_ms_total
             /\ flush = "ok" =>
                    /\ setting_file' =
                           [valid |-> TRUE, pos |-> setting_pos',
                            last |-> setting_last',
                            recent |-> recent_files',
                            total |-> learning_time_ms_total]
                    /\ history' =
                           IF append_ok
                           THEN Append(history,
                                    [LearningTime_ms |-> learning_time_ms])
                           ELSE history]_vars

\* closed after a session that learned and stopped a track past its start:
\* the file has the new total and position, the history the one row
C18_Witness ==
    /\ closed
    /\ learning_time_ms > 0
    /\ setting_file.valid
    /\ setting_file.total = learning_time_ms_total
    /\ setting_file.pos[1] = Some(Grid * DurSteps)
    /\ history = << [LearningTime_ms |-> learning_time_ms] >>

(***************************************************************************)
(* C19.  If from some point on the loop is Full with                       *)
(* 0 <= pos_loop_a < pos_loop_b <= duration_ms, the engine is Playing and  *)
(* the only steps are position ticks, then the engine is sent back to      *)
(* pos_loop_a infinitely often and the playhead ends up staying at or      *)
(* before pos_loop_b: playback does not run on to the end of the track.    *)
(***************************************************************************)
LoopArmed ==
    IF pos_loop_a = None \/ pos_loop_b = None THEN FALSE
    ELSE /\ 0 <= Val(pos_loop_a) /\ Val(pos_loop_a) < Val(pos_loop_b)
         /\ Val(pos_loop_b) <= duration_ms

SeekBackToA ==
    IF pos_loop_a = None THEN FALSE
    ELSE seeks = << Val(pos_loop_a) >> /\ p_position = Val(pos_loop_a)

WithinLoop ==
    IF pos_loop_b = None THEN FALSE ELSE p_position <= Val(pos_loop_b)

C19_LoopRepeatsForever ==
    (<>[][PositionChanged]_vars /\ <>[](LoopArmed /\ p_state = "Playing"))
        => ([]<>SeekBackToA /\ <>[]WithinLoop)

C19_Witness ==
    LoopArmed /\ p_state = "Playing" /\ SeekBackToA /\ Val(pos_loop_a) = 0

(***************************************************************************)
(* C20.  A stop that runs after load_mp3 and before the media-loaded       *)
(* callback of that load (from an open or from the close of the window)    *)
(* leaves the resume position stored for the path being loaded as it was.  *)
(***************************************************************************)
C20_StopBeforeLoadedKeepsResume ==
    [][(/\ DoOpenMp3 \/ DoClose
        /\ path_media # NoPath
        /\ p_status = "LoadingMedia" /\ buf_open)
       => setting_pos'[path_media] = setting_pos[path_media]]_vars

(***************************************************************************)
(* C21.  The markers the progress bar draws are the controller's: in every *)
(* state progressbar.pos_loop_a = pos_loop_a and                           *)
(* progressbar.pos_loop_b = pos_loop_b.                                    *)
(***************************************************************************)
C21_ProgressbarMirrorsMarkers ==
    /\ progressbar.pos_loop_a = pos_loop_a
    /\ progressbar.pos_loop_b = pos_loop_b

====
